---- MODULE Spec2Model ----
(***************************************************************************)
(* Model of src/src/shuffle_manager.rs: the shuffle HTTP service           *)
(* (ShuffleService, the error-to-response mapping), the endpoint binder    *)
(* (ShuffleManager::start_server / launch_async_runtime) and the working   *)
(* directory and output files (get_local_work_dir, get_output_file).       *)
(*                                                                         *)
(* Text is a sequence of one-character strings; a byte of a body is        *)
(* written as the ASCII character it encodes, so that a body built from a  *)
(* String and a body built from a Vec<u8> are values of one kind.          *)
(* An Option<T> is a sequence of zero or one T.                            *)
(***************************************************************************)
EXTENDS Integers, Sequences, FiniteSets, TLC

\* ---------------------------------------------------------------- bounds
\* ids of the coordinates the cache may hold: 0..MaxId
MaxId == 1
\* number of blocks the cache may hold at once
MaxEntries == 1
\* calls of start_server in one process
MaxCalls == 2
\* offsets 0..NumLowOffsets-1 of the dynamic range are sampled, and the last one
NumLowOffsets == 1
\* distinct values Uuid::new_v4() may return
NumUuids == 2

\* ------------------------------------------------------------- constants
STATUS_OK == 200
STATUS_BAD_REQUEST == 400
STATUS_NOT_FOUND == 404
STATUS_INTERNAL_SERVER_ERROR == 500
\* radix of u64::from_str_radix(part, 10)
RADIX == 10
\* u64::MAX = 2^64 - 1 has 20 decimal digits: a longer numeral overflows
U64_DIGITS == 20
FIRST_DYNAMIC_PORT == 49152
LAST_DYNAMIC_PORT == 65535
\* for retry in 0..10
MAX_RETRIES == 10
\* u16
U16_MODULUS == 65536

\* ------------------------------------------------------------------ text
Digits == <<"0", "1", "2", "3", "4", "5", "6", "7", "8", "9">>

IsDigit(c) == \E d \in 1..RADIX : Digits[d] = c

DigitVal(c) == (CHOOSE d \in 1..RADIX : Digits[d] = c) - 1

str_shuffle == <<"s", "h", "u", "f", "f", "l", "e">>
str_status == <<"s", "t", "a", "t", "u", "s">>
str_not_valid == <<"n", "o", "t", "_", "v", "a", "l", "i", "d">>
str_http == <<"h", "t", "t", "p">>
str_failed_to_parse ==
    <<"F", "a", "i", "l", "e", "d", " ", "t", "o", " ", "p", "a", "r", "s", "e", ":", " ">>

\* str::split(sep): the pieces between the occurrences of sep, empty ones kept
RECURSIVE split(_, _)
split(s, sep) ==
    IF \E i \in 1..Len(s) : s[i] = sep
    THEN LET i == CHOOSE k \in 1..Len(s) :
                      s[k] = sep /\ \A j \in 1..(k - 1) : s[j] # sep
         IN  <<SubSeq(s, 1, i - 1)>> \o split(SubSeq(s, i + 1, Len(s)), sep)
    ELSE <<s>>

\* ------------------------------------------------------------ hyper::Uri
\* [scheme, authority : Option<text>, path : text, query : Option<text>]
uri_path(uri) == uri.path

\* impl Display for Uri: scheme "://" authority path "?" query
uri_display(uri) ==
    (IF uri.scheme # <<>> THEN uri.scheme[1] \o <<":", "/", "/">> ELSE <<>>)
    \o (IF uri.authority # <<>> THEN uri.authority[1] ELSE <<>>)
    \o uri.path
    \o (IF uri.query # <<>> THEN <<"?">> \o uri.query[1] ELSE <<>>)

\* ------------------------------------------------------------ the errors
NO_TEXT == <<>>

ShuffleManagerError(kind, text, port) == [kind |-> kind, text |-> text, port |-> port]
CouldNotCreateShuffleDir == ShuffleManagerError("CouldNotCreateShuffleDir", NO_TEXT, 0)
FailedToParseUri(text) == ShuffleManagerError("FailedToParseUri", text, 0)
FailedToStart == ShuffleManagerError("FailedToStart", NO_TEXT, 0)
FreePortNotFound(port) == ShuffleManagerError("FreePortNotFound", NO_TEXT, port)
RequestedCacheNotFound == ShuffleManagerError("RequestedCacheNotFound", NO_TEXT, 0)
NotValidEndpoint == ShuffleManagerError("NotValidEndpoint", NO_TEXT, 0)

\* Result<T>: exactly one of val, err is meaningful
Ok(v) == [ok |-> TRUE, val |-> <<v>>, err |-> <<>>]
Err(e) == [ok |-> FALSE, val |-> <<>>, err |-> <<e>>]

\* Response<Body>
Response(status, body) == [status |-> status, body |-> body]

\* variant of into_response without the RequestedCacheNotFound arm
into_response_500(e) ==
    IF e.kind = "FailedToStart" THEN Response(STATUS_NOT_FOUND, <<>>)
    ELSE IF e.kind = "FailedToParseUri"
         THEN Response(STATUS_BAD_REQUEST, str_failed_to_parse \o e.text)
    ELSE Response(STATUS_INTERNAL_SERVER_ERROR, <<>>)

\* impl Into<Response<Body>> for ShuffleManagerError
into_response(e) ==
    IF e.kind = "FailedToStart" THEN Response(STATUS_NOT_FOUND, <<>>)
    ELSE IF e.kind = "FailedToParseUri"
         THEN Response(STATUS_BAD_REQUEST, str_failed_to_parse \o e.text)
    ELSE IF e.kind = "RequestedCacheNotFound" THEN Response(STATUS_NOT_FOUND, <<>>)
    ELSE Response(STATUS_INTERNAL_SERVER_ERROR, <<>>)

\* -------------------------------------------------------- ShuffleService
\* the value of a run of decimal digits, most significant first
RECURSIVE digits_value(_)
digits_value(ds) ==
    IF ds = <<>> THEN 0
    ELSE digits_value(SubSeq(ds, 1, Len(ds) - 1)) * RADIX + DigitVal(ds[Len(ds)])

RECURSIVE strip_zeros(_)
strip_zeros(ds) ==
    IF Len(ds) > 1 /\ ds[1] = "0" THEN strip_zeros(Tail(ds)) ELSE ds

\* u64::MAX, 18446744073709551615, as a numeral
U64_MAX_DIGITS ==
    <<"1", "8", "4", "4", "6", "7", "4", "4", "0", "7",
      "3", "7", "0", "9", "5", "5", "1", "6", "1", "5">>

\* the numeral ds, without leading zeros, is above the numeral max
numeral_above(ds, max) ==
    \/ Len(ds) > Len(max)
    \/ /\ Len(ds) = Len(max)
       /\ \E k \in 1..Len(ds) :
              /\ DigitVal(ds[k]) > DigitVal(max[k])
              /\ \A j \in 1..(k - 1) : ds[j] = max[j]

\* u64::from_str_radix(part, 10) as usize (usize is 64 bits wide): one or
\* more decimal digits after an optional '+'; a numeral above u64::MAX is an
\* error.  The value is an Int, so it is computed for the numerals in range.
parse_path_part(part) ==
    LET ds == IF part # <<>> /\ part[1] = "+" THEN Tail(part) ELSE part
    IN  IF ds = <<>> \/ \E k \in 1..Len(ds) : ~IsDigit(ds[k])
        THEN Err(FailedToParseUri(NO_TEXT))
        ELSE IF numeral_above(strip_zeros(ds), U64_MAX_DIGITS)
        THEN Err(FailedToParseUri(NO_TEXT))
        ELSE Ok(digits_value(ds))

\* variant of get_cached_data whose key has input and reduce id exchanged
get_cached_data_swapped(uri, parts, cache) ==
    LET parsed == [k \in 1..Len(parts) |-> parse_path_part(parts[k])]
    IN  IF \E k \in 1..Len(parts) : ~parsed[k].ok
        THEN Err(FailedToParseUri(uri_display(uri)))
        ELSE LET key == <<parsed[1].val[1], parsed[3].val[1], parsed[2].val[1]>>
             IN  IF key \in DOMAIN cache
                 THEN Ok(cache[key])
                 ELSE Err(RequestedCacheNotFound)

\* variant of get_cached_data that passes on the error of parse_path_part
get_cached_data_inner_err(uri, parts, cache) ==
    LET parsed == [k \in 1..Len(parts) |-> parse_path_part(parts[k])]
    IN  IF \E k \in 1..Len(parts) : ~parsed[k].ok
        THEN parsed[CHOOSE k \in 1..Len(parts) :
                        ~parsed[k].ok /\ \A j \in 1..(k - 1) : parsed[j].ok]
        ELSE LET key == <<parsed[1].val[1], parsed[2].val[1], parsed[3].val[1]>>
             IN  IF key \in DOMAIN cache
                 THEN Ok(cache[key])
                 ELSE Err(RequestedCacheNotFound)

\* get_cached_data: the three parts parsed, then the lookup and the copy of
\* the block, under the read guard of env::shuffle_cache
get_cached_data(uri, parts, cache) ==
    LET parsed == [k \in 1..Len(parts) |-> parse_path_part(parts[k])]
    IN  IF \E k \in 1..Len(parts) : ~parsed[k].ok
        THEN Err(FailedToParseUri(uri_display(uri)))
        ELSE LET key == <<parsed[1].val[1], parsed[2].val[1], parsed[3].val[1]>>
             IN  IF key \in DOMAIN cache
                 THEN Ok(cache[key])
                 ELSE Err(RequestedCacheNotFound)

\* enum ShuffleResponse
ShuffleResponse(kind, code, data) == [kind |-> kind, code |-> code, data |-> data]
Status(code) == ShuffleResponse("Status", code, <<>>)
CachedData(data) == ShuffleResponse("CachedData", 0, data)

\* variant of response_type whose fallback arm is NotValidEndpoint
response_type_not_valid_endpoint(uri, cache) ==
    LET parts == split(uri_path(uri), "/")
    IN  IF Len(parts) = 2 /\ parts[2] = str_status
        THEN Ok(Status(STATUS_OK))
        ELSE IF Len(parts) = 5 /\ parts[2] = str_shuffle
        THEN LET data == get_cached_data(uri, SubSeq(parts, 3, 5), cache)
             IN  IF data.ok THEN Ok(CachedData(data.val[1])) ELSE data
        ELSE Err(NotValidEndpoint)

\* response_type: the path split on '/', then the match on its parts
response_type(uri, cache) ==
    LET parts == split(uri_path(uri), "/")
    IN  IF Len(parts) = 2 /\ parts[2] = str_status
        THEN Ok(Status(STATUS_OK))
        ELSE IF Len(parts) = 5 /\ parts[2] = str_shuffle
        THEN LET data == get_cached_data(uri, SubSeq(parts, 3, 5), cache)
             IN  IF data.ok THEN Ok(CachedData(data.val[1])) ELSE data
        ELSE Err(FailedToParseUri(uri_display(uri)))

\* variant of respond whose Err arm is future::err(err)
respond_err(r) ==
    IF r.ok
    THEN IF r.val[1].kind = "Status"
         THEN Ok(Response(r.val[1].code, <<>>))
         ELSE Ok(Response(STATUS_OK, r.val[1].data))
    ELSE r

\* the match of Service::call on what response_type returned: the value the
\* returned future::Ready resolves to
respond(r) ==
    IF r.ok
    THEN IF r.val[1].kind = "Status"
         THEN Ok(Response(r.val[1].code, <<>>))
         ELSE Ok(Response(STATUS_OK, r.val[1].data))
    ELSE Ok(into_response(r.err[1]))

\* Service::call from the request to the response, the cache as it is at
\* the read
call(uri, cache) == respond(response_type(uri, cache))

\* response_type gets as far as env::shuffle_cache.read() for this uri: the
\* path has the shuffle form and its three parts parse
reads_cache(uri) ==
    LET parts == split(uri_path(uri), "/")
    IN  /\ ~(Len(parts) = 2 /\ parts[2] = str_status)
        /\ Len(parts) = 5
        /\ parts[2] = str_shuffle
        /\ \A k \in 3..5 : parse_path_part(parts[k]).ok

\* (parts[0], parts[1], parts[2]) of get_cached_data
key_of(uri) ==
    LET parts == split(uri_path(uri), "/")
    IN  <<parse_path_part(parts[3]).val[1], parse_path_part(parts[4]).val[1],
          parse_path_part(parts[5]).val[1]>>

\* ------------------------------------------------- the inputs of the model
Ids == 0..MaxId
Coordinates == Ids \X Ids \X Ids

\* the blocks the shuffle writer stores: an empty one and one of two bytes
Blocks == {<<>>, <<"a", "b">>}

\* format!("{}", n) of an unsigned integer
RECURSIVE to_string(_)
to_string(n) ==
    IF n < RADIX THEN <<Digits[n + 1]>>
    ELSE to_string(n \div RADIX) \o <<Digits[(n % RADIX) + 1]>>

\* the text whose split on sep is segs
RECURSIVE join(_, _)
join(segs, sep) ==
    IF Len(segs) = 1 THEN segs[1]
    ELSE segs[1] \o <<sep>> \o join(Tail(segs), sep)

\* "/shuffle/{s}/{i}/{r}", as the tests format it
shuffle_path(c) ==
    join(<<<<>>, str_shuffle, to_string(c[1]), to_string(c[2]), to_string(c[3])>>, "/")

\* u64::MAX + 1, the least numeral that overflows, of 20 digits
Overflowing == [k \in 1..U64_DIGITS |-> IF k = U64_DIGITS THEN "6" ELSE U64_MAX_DIGITS[k]]
\* a numeral of 21 digits
TooLong == [k \in 1..(U64_DIGITS + 1) |-> "9"]

IdSegments == {to_string(n) : n \in Ids} \union {<<"+", "1">>}
Endpoints == {str_shuffle, str_status, str_not_valid}
OddTails ==
    { <<>>, <<<<>>>>, <<<<"0">>>>, <<<<"0">>, <<"0">>>>,
      <<<<"0">>, <<"0">>, <<"0">>>>,
      <<<<"0">>, <<"0">>, <<"0">>, <<"0">>>>,
      <<<<"x">>, <<"0">>, <<"0">>>>, <<<<"0">>, <<"x">>, <<"0">>>>,
      <<<<"0">>, <<"0">>, <<"x">>>>, <<<<"0">>, <<>>, <<"0">>>>,
      <<<<"0">>, <<"1">>>>, <<<<"-", "1">>, <<"0">>, <<"0">>>>,
      <<<<"0">>, <<"+">>, <<"0">>>>,
      <<<<"0">>, <<"0", "1">>, <<"0">>>>, <<<<"0">>, <<"0">>, Overflowing>>,
      <<<<"0">>, TooLong, <<"0">>>> }

Paths ==
    {join(<<<<>>, str_shuffle, a, b, c>>, "/") : a \in IdSegments, b \in IdSegments, c \in IdSegments}
    \union {join(<<<<>>, e>> \o t, "/") : e \in Endpoints, t \in OddTails}
    \union {<<"*">>, <<"/">>}

\* a request target: origin form, with or without a query, or absolute form
Uris ==
    {[scheme |-> f[1], authority |-> f[2], path |-> p, query |-> f[3]] :
        f \in {<<<<>>, <<>>, <<>>>>,
                <<<<>>, <<>>, <<<<"q">>>>>>,
                <<<<str_http>>, <<<<"h">>>>, <<>>>>},
        p \in Paths}

\* ------------------------------------------------- std::path and std::fs
str_spark_local == <<"/", "s", "p", "a", "r", "k", "-", "l", "o", "c", "a", "l", "-">>
str_tmp == <<"/", "t", "m", "p">>
HexDigits == <<"0", "1", "2", "3", "4", "5", "6", "7", "8", "9", "a", "b", "c", "d", "e", "f">>

\* the values Uuid::new_v4() returns in the model
Uuids == 0..(NumUuids - 1)

\* Uuid::to_string: the hyphenated 8-4-4-4-12 form of a version 4 uuid whose
\* last hexadecimal digit is u
uuid_to_string(u) ==
    [k \in 1..8 |-> "0"] \o <<"-">> \o [k \in 1..4 |-> "0"] \o <<"-", "4", "0", "0", "0">>
    \o <<"-", "8", "0", "0", "0", "-">> \o [k \in 1..11 |-> "0"] \o <<HexDigits[u + 1]>>

\* env::Configuration::get().local_dir
local_dir_root == str_tmp

is_absolute(p) == p # <<>> /\ p[1] = "/"

\* PathBuf::join: an absolute argument replaces the base
path_join(base, p) ==
    IF is_absolute(p) THEN p
    ELSE IF base = <<>> \/ base[Len(base)] = "/" THEN base \o p
    ELSE base \o <<"/">> \o p

\* the components of an absolute path, and the path of components
components(p) == SelectSeq(split(p, "/"), LAMBDA seg : seg # <<>>)
path_of(comps) == IF comps = <<>> THEN <<"/">> ELSE <<"/">> \o join(comps, "/")
parent_of(p) ==
    LET comps == components(p) IN path_of(SubSeq(comps, 1, Len(comps) - 1))

\* an entry may be created in every directory but, for a process that is
\* not privileged, "/"
can_write(dir, rw) == dir # <<"/">> \/ rw

\* Path::exists
path_exists(p, ds, fl) == path_of(components(p)) \in ds \/ path_of(components(p)) \in DOMAIN fl

\* fs::create_dir_all from component k of comps on: the missing directories
\* are created from the top; a file in the way or a parent that cannot be
\* written ends it with an error, what was created stays
RECURSIVE mkdirs(_, _, _, _, _)
mkdirs(comps, k, ds, fl, rw) ==
    IF k > Len(comps) THEN [ok |-> TRUE, dirs |-> ds]
    ELSE LET d == path_of(SubSeq(comps, 1, k))
         IN  IF d \in ds THEN mkdirs(comps, k + 1, ds, fl, rw)
             ELSE IF d \in DOMAIN fl \/ ~can_write(path_of(SubSeq(comps, 1, k - 1)), rw)
             THEN [ok |-> FALSE, dirs |-> ds]
             ELSE mkdirs(comps, k + 1, ds \union {d}, fl, rw)

create_dir_all(p, ds, fl, rw) == mkdirs(components(p), 1, ds, fl, rw)

\* fs::File::create: the file is created, or truncated when it exists
file_create(p, ds, fl, rw) ==
    LET q == path_of(components(p))
    IN  IF /\ parent_of(q) \in ds
           /\ q \notin ds
           /\ (q \in DOMAIN fl \/ can_write(parent_of(q), rw))
        THEN [ok |-> TRUE,
              files |-> [f \in DOMAIN fl \union {q} |-> IF f = q THEN <<>> ELSE fl[f]]]
        ELSE [ok |-> FALSE, files |-> fl]

\* local_dir_root.join(format!("/spark-local-{}", uuid))
work_dir_candidate(u) == path_join(local_dir_root, str_spark_local \o uuid_to_string(u))

\* self.shuffle_dir.join(format!("/{}/{}", shuffle_id, input_id))
output_dir(shuffle_dir, c) ==
    path_join(shuffle_dir, <<"/">> \o to_string(c[1]) \o <<"/">> \o to_string(c[2]))

\* path.join(format!("{}", output_id))
output_file(shuffle_dir, c) == path_join(output_dir(shuffle_dir, c), to_string(c[3]))

\* ------------------------------------------------------------- the state
VARIABLES
    cache,       \* env::shuffle_cache: coordinate -> block
    req,         \* Option<Uri>: the request of the exchange in progress
    rsp,         \* Option<Result<Response>>: what call resolved to for it
    foreign,     \* ports on which a listener of another process is bound
    fg,          \* the thread inside start_server: pc and its locals
    bg,          \* the thread spawned by the launch_async_runtime in progress
    unbound,     \* port -> threads of returned launches not yet at try_bind
    listening,   \* ports on which a server of this process is bound and serving
    launch_ret,  \* Option: how the last launch_async_runtime returned
    ret,         \* Option<Result<String>>: what the last start_server returned
    server_uris, \* server_uri of every ShuffleManager built from an Ok return
    probe,       \* Option: outcome of GET {uri}/status after the last Ok return
    calls,       \* start_server calls made so far
    attempts,    \* launch_async_runtime calls of the current start_server call
    failures,    \* those of them that returned Err
    confirmed,   \* ports an earlier launch of this process found bound or bound
    free_at_call,\* whether the fixed port was unbound when start_server was called
    dirs,        \* the directories of the host's filesystem
    files,       \* its regular files: path -> content
    root_writable, \* whether the processes may create entries in "/"
    alloc,       \* instance -> get_local_work_dir and the directories of new()
    out,         \* instance -> Option: what its last get_output_file did
    lock,        \* the RwLock around env::shuffle_cache: who holds it
    lk,          \* the thread inside get_cached_data and call: pc and its locals
    seen         \* the entries the cache held for lk.key while the lookup ran

svc_vars == <<cache, req, rsp>>
start_vars == <<foreign, fg, bg, unbound, listening, launch_ret, ret, server_uris,
                probe, calls, attempts, failures, confirmed, free_at_call>>
fs_vars == <<dirs, files, root_writable, alloc, out>>
vars == <<cache, req, rsp, foreign, fg, bg, unbound, listening, launch_ret, ret,
          server_uris, probe, calls, attempts, failures, confirmed, free_at_call,
          dirs, files, root_writable, alloc, out, lock, lk, seen>>
lk_vars == <<lock, lk, seen>>

EmptyCache == [c \in {} |-> <<>>]

\* ------------------------------------------------- the service at work
SvcInit ==
    /\ cache = EmptyCache
    /\ req = <<>>
    /\ rsp = <<>>

\* ------------------------------------------------- the endpoint binder
\* rand::thread_rng().gen_range(0, LAST_DYNAMIC_PORT - FIRST_DYNAMIC_PORT)
Offsets == 0..(LAST_DYNAMIC_PORT - FIRST_DYNAMIC_PORT - 1)
SampledOffsets ==
    {o \in Offsets : o < NumLowOffsets \/ o = LAST_DYNAMIC_PORT - FIRST_DYNAMIC_PORT - 1}

\* variant of get_dynamic_port whose range includes LAST_DYNAMIC_PORT
get_dynamic_port_inclusive(offset) == (FIRST_DYNAMIC_PORT + offset + 1) % U16_MODULUS

\* FIRST_DYNAMIC_PORT + offset, in u16
get_dynamic_port(offset) == (FIRST_DYNAMIC_PORT + offset) % U16_MODULUS

Ports == {get_dynamic_port(o) : o \in SampledOffsets}

\* env::Configuration::get().local_ip
local_ip == <<"1", "2", "7", ".", "0", ".", "0", ".", "1">>

\* format!("http://{}:{}", local_ip, port)
format_server_uri(port) ==
    str_http \o <<":", "/", "/">> \o local_ip \o <<":">> \o to_string(port)

status_uri ==
    [scheme |-> <<>>, authority |-> <<>>, path |-> <<"/">> \o str_status, query |-> <<>>]

NoThread == [st |-> "none", port |-> 0]
IdleFg == [pc |-> "idle", arg |-> <<>>, retry |-> 0, bind_port |-> 0, port |-> 0]

StartIdle ==
    /\ fg = IdleFg
    /\ bg = NoThread
    /\ unbound = [p \in Ports |-> 0]
    /\ listening = {}
    /\ launch_ret = <<>>
    /\ ret = <<>>
    /\ server_uris = <<>>
    /\ probe = <<>>
    /\ calls = 0
    /\ attempts = 0
    /\ failures = 0
    /\ confirmed = {}
    /\ free_at_call = FALSE

StartInit ==
    /\ foreign \in SUBSET Ports
    /\ StartIdle

\* Server::try_bind succeeds on a port no listener holds
port_free(p) == p \notin foreign /\ p \notin listening

\* start_server(port) is entered; None is <<>>, Some(p) is <<p>>
StartServer(arg) ==
    /\ fg.pc = "idle"
    /\ calls < MaxCalls
    /\ calls' = calls + 1
    /\ fg' = [pc |-> "attempt", arg |-> arg, retry |-> 0, bind_port |-> 0, port |-> 0]
    /\ ret' = <<>>
    /\ launch_ret' = <<>>
    /\ probe' = <<>>
    /\ attempts' = 0
    /\ failures' = 0
    /\ free_at_call' = (arg # <<>> /\ port_free(arg[1]))
    /\ UNCHANGED <<foreign, bg, unbound, listening, server_uris, confirmed>>
    /\ UNCHANGED <<svc_vars, fs_vars, lk_vars>>

\* tokio::runtime::Builder::build() fails: start_server returns FailedToStart
RtBuildFails ==
    /\ fg.pc = "attempt"
    /\ fg' = [fg EXCEPT !.pc = "idle"]
    /\ ret' = <<Err(FailedToStart)>>
    /\ UNCHANGED <<foreign, bg, unbound, listening, launch_ret, server_uris, probe,
                   calls, attempts, failures, confirmed, free_at_call>>
    /\ UNCHANGED <<svc_vars, fs_vars, lk_vars>>

\* the runtime is built and launch_async_runtime spawns the binding thread,
\* on the given port (fixed mode) or on get_dynamic_port() (dynamic mode)
Launch(offset) ==
    /\ fg.pc = "attempt"
    /\ LET bind_port == IF fg.arg # <<>> THEN fg.arg[1] ELSE get_dynamic_port(offset)
       IN  /\ fg' = [fg EXCEPT !.pc = "select", !.bind_port = bind_port]
           /\ bg' = [st |-> "spawned", port |-> bind_port]
    /\ attempts' = attempts + 1
    /\ launch_ret' = <<>>
    /\ UNCHANGED <<foreign, unbound, listening, ret, server_uris, probe, calls,
                   failures, confirmed, free_at_call>>
    /\ UNCHANGED <<svc_vars, fs_vars, lk_vars>>

\* the spawned thread reaches Server::try_bind(..).unwrap(): it serves, or it
\* panics and the unwinding drops the sender
BgBind ==
    /\ bg.st = "spawned"
    /\ IF port_free(bg.port)
       THEN /\ bg' = [bg EXCEPT !.st = "serving"]
            /\ listening' = listening \union {bg.port}
       ELSE /\ bg' = [bg EXCEPT !.st = "panicked"]
            /\ UNCHANGED listening
    /\ UNCHANGED <<foreign, fg, unbound, launch_ret, ret, server_uris, probe, calls,
                   attempts, failures, confirmed, free_at_call>>
    /\ UNCHANGED <<svc_vars, fs_vars, lk_vars>>

\* server.await resolves to Err: the listener is gone and s.send(Err(err)) runs
BgServeFails ==
    /\ bg.st = "serving"
    /\ bg' = [bg EXCEPT !.st = "sent"]
    /\ listening' = listening \ {bg.port}
    /\ UNCHANGED <<foreign, fg, unbound, launch_ret, ret, server_uris, probe, calls,
                   attempts, failures, confirmed, free_at_call>>
    /\ UNCHANGED <<svc_vars, fs_vars, lk_vars>>

\* the same thread body, run after its launch_async_runtime has returned
DetachedBind(p) ==
    /\ unbound[p] > 0
    /\ unbound' = [unbound EXCEPT ![p] = @ - 1]
    /\ listening' = IF port_free(p) THEN listening \union {p} ELSE listening
    /\ UNCHANGED <<foreign, fg, bg, launch_ret, ret, server_uris, probe, calls,
                   attempts, failures, confirmed, free_at_call>>
    /\ UNCHANGED <<svc_vars, fs_vars, lk_vars>>

DetachedServeFails(p) ==
    /\ p \in listening
    /\ ~(bg.st = "serving" /\ bg.port = p)
    /\ listening' = listening \ {p}
    /\ UNCHANGED <<foreign, fg, bg, unbound, launch_ret, ret, server_uris, probe,
                   calls, attempts, failures, confirmed, free_at_call>>
    /\ UNCHANGED <<svc_vars, fs_vars, lk_vars>>

\* start_server returns result
Return(result) ==
    /\ ret' = <<result>>
    /\ server_uris' = IF result.ok THEN Append(server_uris, result.val[1]) ELSE server_uris

\* variant of after_launch that tests retry == 10 for the last retry
after_launch_loop_off_by_one(launched) ==
    IF fg.arg # <<>>
    THEN /\ fg' = [fg EXCEPT !.pc = "idle", !.port = IF launched.ok THEN fg.bind_port ELSE 0]
         /\ Return(IF launched.ok THEN Ok(format_server_uri(fg.bind_port)) ELSE launched)
    ELSE IF launched.ok
    THEN /\ fg' = [fg EXCEPT !.pc = "idle", !.port = fg.bind_port]
         /\ Return(Ok(format_server_uri(fg.bind_port)))
    ELSE IF fg.retry = MAX_RETRIES
    THEN /\ fg' = [fg EXCEPT !.pc = "idle"]
         /\ Return(Err(FreePortNotFound(fg.bind_port)))
    ELSE IF fg.retry + 1 < MAX_RETRIES
    THEN /\ fg' = [fg EXCEPT !.pc = "attempt", !.retry = fg.retry + 1]
         /\ UNCHANGED <<ret, server_uris>>
    ELSE /\ fg' = [fg EXCEPT !.pc = "idle"]
         /\ Return(Ok(format_server_uri(fg.port)))

\* start_server after launch_async_runtime has returned launched: the ? of
\* fixed mode; break, retry == 9 or the next iteration of dynamic mode, and
\* the placeholder port 0 should the loop run out
after_launch(launched) ==
    IF fg.arg # <<>>
    THEN /\ fg' = [fg EXCEPT !.pc = "idle", !.port = IF launched.ok THEN fg.bind_port ELSE 0]
         /\ Return(IF launched.ok THEN Ok(format_server_uri(fg.bind_port)) ELSE launched)
    ELSE IF launched.ok
    THEN /\ fg' = [fg EXCEPT !.pc = "idle", !.port = fg.bind_port]
         /\ Return(Ok(format_server_uri(fg.bind_port)))
    ELSE IF fg.retry = MAX_RETRIES - 1
    THEN /\ fg' = [fg EXCEPT !.pc = "idle"]
         /\ Return(Err(FreePortNotFound(fg.bind_port)))
    ELSE IF fg.retry + 1 < MAX_RETRIES
    THEN /\ fg' = [fg EXCEPT !.pc = "attempt", !.retry = fg.retry + 1]
         /\ UNCHANGED <<ret, server_uris>>
    ELSE /\ fg' = [fg EXCEPT !.pc = "idle"]
         /\ Return(Ok(format_server_uri(fg.port)))

\* recv(r) -> msg: Ok(Err(err)) when the thread sent, Err(RecvError) when the
\* sender was dropped; msg.map_err(|_| FailedToStart)? leaves on the second only
recv_result(st) == IF st = "sent" THEN Ok("unit") ELSE Err(FailedToStart)

\* select!: the recv arm
SelectRecv ==
    /\ fg.pc = "select"
    /\ bg.st \in {"sent", "panicked"}
    /\ launch_ret' = <<[signal |-> bg.st, result |-> recv_result(bg.st)]>>
    /\ after_launch(recv_result(bg.st))
    /\ bg' = NoThread
    /\ failures' = IF recv_result(bg.st).ok THEN failures ELSE failures + 1
    /\ confirmed' = confirmed \union {bg.port}
    /\ UNCHANGED <<foreign, unbound, listening, probe, calls, attempts, free_at_call>>
    /\ UNCHANGED <<svc_vars, fs_vars, lk_vars>>

\* select!: the default(100 ms) arm, nothing having arrived on the channel
SelectTimeout ==
    /\ fg.pc = "select"
    /\ bg.st \in {"spawned", "serving"}
    /\ launch_ret' = <<[signal |-> "timeout", result |-> Ok("unit")]>>
    /\ after_launch(Ok("unit"))
    /\ bg' = NoThread
    /\ unbound' = IF bg.st = "spawned" THEN [unbound EXCEPT ![bg.port] = @ + 1] ELSE unbound
    /\ confirmed' = confirmed \union {bg.port}
    /\ UNCHANGED <<foreign, listening, probe, calls, attempts, failures, free_at_call>>
    /\ UNCHANGED <<svc_vars, fs_vars, lk_vars>>

\* a peer sends GET {uri}/status to the URI the last start_server returned
GetStatus ==
    /\ fg.pc = "idle"
    /\ ret # <<>>
    /\ ret[1].ok
    /\ probe' = IF fg.port \in listening
                THEN <<[answered_by |-> "service", rsp |-> call(status_uri, cache).val]>>
                ELSE IF fg.port \in foreign
                THEN <<[answered_by |-> "foreign", rsp |-> <<>>]>>
                ELSE <<[answered_by |-> "nobody", rsp |-> <<>>]>>
    /\ UNCHANGED <<foreign, fg, bg, unbound, listening, launch_ret, ret, server_uris,
                   calls, attempts, failures, confirmed, free_at_call>>
    /\ UNCHANGED <<svc_vars, fs_vars, lk_vars>>

FgStep ==
    \/ RtBuildFails
    \/ \E o \in SampledOffsets : Launch(o)
    \/ SelectRecv
    \/ SelectTimeout

\* ------------------------------------- the working directory and the files
\* the processes that run on the host and share its filesystem
Instances == {1, 2}

IdleAlloc ==
    [pc |-> "idle", tries |-> 0, local_dir |-> <<>>, shuffle_dir |-> <<>>, ret |-> <<>>,
     existed |-> FALSE, create_ok |-> FALSE, shuffle_ok |-> FALSE]

\* nothing but "/" and the configured root
FsIdle ==
    /\ dirs = {<<"/">>, local_dir_root}
    /\ files = <<>>
    /\ root_writable = FALSE
    /\ alloc = [i \in Instances |-> IdleAlloc]
    /\ out = [i \in Instances |-> <<>>]

\* working directories of earlier runs may be left, nothing deletes them
FsInit ==
    /\ \E left \in SUBSET {work_dir_candidate(u) : u \in Uuids} :
           dirs = {<<"/">>, local_dir_root} \union left
    /\ files = <<>>
    /\ root_writable \in BOOLEAN
    /\ alloc = [i \in Instances |-> IdleAlloc]
    /\ out = [i \in Instances |-> <<>>]

\* get_local_work_dir is entered
AllocCall(i) ==
    /\ alloc[i].pc = "idle"
    /\ alloc' = [alloc EXCEPT ![i].pc = "check"]
    /\ UNCHANGED <<dirs, files, root_writable, out>>
    /\ UNCHANGED <<svc_vars, start_vars, lk_vars>>

\* one turn of the loop up to the test: a uuid is drawn and the candidate
\* looked up; the 10th candidate that exists ends the loop with the error
AllocCheck(i, u) ==
    /\ alloc[i].pc = "check"
    /\ LET local_dir == work_dir_candidate(u)
       IN  alloc' = [alloc EXCEPT ![i] =
               IF ~path_exists(local_dir, dirs, files)
               THEN [@ EXCEPT !.pc = "create", !.local_dir = local_dir]
               ELSE IF @.tries + 1 < MAX_RETRIES
               THEN [@ EXCEPT !.tries = @ + 1]
               ELSE [@ EXCEPT !.pc = "failed", !.tries = @ + 1,
                              !.ret = <<Err(CouldNotCreateShuffleDir)>>]]
    /\ UNCHANGED <<dirs, files, root_writable, out>>
    /\ UNCHANGED <<svc_vars, start_vars, lk_vars>>

\* fs::create_dir_all(&local_dir), its result dropped; return Ok(local_dir)
AllocCreate(i) ==
    /\ alloc[i].pc = "create"
    /\ LET made == create_dir_all(alloc[i].local_dir, dirs, files, root_writable)
       IN  /\ dirs' = made.dirs
           /\ alloc' = [alloc EXCEPT ![i].pc = "returned",
                                     ![i].existed = path_exists(alloc[i].local_dir, dirs, files),
                                     ![i].create_ok = made.ok,
                                     ![i].ret = <<Ok(alloc[i].local_dir)>>]
    /\ UNCHANGED <<files, root_writable, out>>
    /\ UNCHANGED <<svc_vars, start_vars, lk_vars>>

\* new(): shuffle_dir = local_dir.join("shuffle"); fs::create_dir_all, its
\* result dropped
MakeShuffleDir(i) ==
    /\ alloc[i].pc = "returned"
    /\ LET shuffle_dir == path_join(alloc[i].local_dir, str_shuffle)
           made == create_dir_all(shuffle_dir, dirs, files, root_writable)
       IN  /\ dirs' = made.dirs
           /\ alloc' = [alloc EXCEPT ![i].pc = "ready",
                                     ![i].shuffle_dir = shuffle_dir,
                                     ![i].shuffle_ok = made.ok]
    /\ UNCHANGED <<files, root_writable, out>>
    /\ UNCHANGED <<svc_vars, start_vars, lk_vars>>

\* the coordinates get_output_file is called with
OutputCoordinates == {c \in Coordinates : c[1] \in {0, MaxId} /\ c[2] = 0 /\ c[3] = 0}

\* get_output_file(shuffle_id, input_id, output_id) of the manager of i
GetOutputFile(i, c) ==
    /\ alloc[i].pc = "ready"
    /\ LET path == output_dir(alloc[i].shuffle_dir, c)
           made == create_dir_all(path, dirs, files, root_writable)
           file_path == output_file(alloc[i].shuffle_dir, c)
           created == file_create(file_path, made.dirs, files, root_writable)
       IN  /\ dirs' = made.dirs
           /\ files' = created.files
           /\ out' = [out EXCEPT ![i] =
                  <<[coordinate |-> c, path |-> file_path, again |-> out[i] # <<>>,
                     dir_ok |-> made.ok, file_ok |-> created.ok]>>]
    /\ UNCHANGED <<root_writable, alloc>>
    /\ UNCHANGED <<svc_vars, start_vars, lk_vars>>

\* the shuffle writer fills a file get_output_file has handed out
WriteOutput(i, block) ==
    /\ out[i] # <<>>
    /\ out[i][1].path \in DOMAIN files
    /\ block # <<>>
    /\ files[out[i][1].path] # block
    /\ files' = [files EXCEPT ![out[i][1].path] = block]
    /\ UNCHANGED <<dirs, root_writable, alloc, out>>
    /\ UNCHANGED <<svc_vars, start_vars, lk_vars>>

FsNext ==
    \/ \E i \in Instances : AllocCall(i)
    \/ \E i \in Instances, u \in Uuids : AllocCheck(i, u)
    \/ \E i \in Instances : AllocCreate(i)
    \/ \E i \in Instances : MakeShuffleDir(i)
    \/ \E i \in Instances, c \in OutputCoordinates : GetOutputFile(i, c)
    \/ \E i \in Instances, block \in Blocks : WriteOutput(i, block)

\* ------------------------------------------- the service and the writers
\* the keys the writers of the model use
CacheKeys == {c \in Coordinates : c[1] = 0}

\* the blocks of the writer of LookupSpec: a mix of the two is neither of them
LookupBlocks == {<<"a", "b">>, <<"b", "a">>}
LookupKeys == {c \in Coordinates : c[1] \in {0, MaxId} /\ c[2] = 0 /\ c[3] = 0}
LookupUris ==
    {[scheme |-> <<>>, authority |-> <<>>, path |-> shuffle_path(c), query |-> <<>>] :
        c \in LookupKeys}

\* cache.get(&key) as an Option
cache_get(c) == IF c \in DOMAIN cache THEN <<cache[c]>> ELSE <<>>

IdleLookup == [pc |-> "idle", key |-> <<>>, copied |-> <<>>, result |-> <<>>]
Looking == lk.pc \in {"held", "copy", "release"}

LkIdle ==
    /\ lock = [readers |-> {}, writer |-> FALSE]
    /\ lk = IdleLookup
    /\ seen = {}

\* hyper hands a request to Service::call
Receive(uri) ==
    /\ req = <<>>
    /\ lk.pc = "idle"
    /\ req' = <<uri>>
    /\ rsp' = <<>>
    /\ lk' = [IdleLookup EXCEPT !.pc = "called"]
    /\ UNCHANGED <<cache, lock, seen>>
    /\ UNCHANGED <<start_vars, fs_vars>>

\* response_type returns without a look at the cache: /status, a path of
\* another form, a part that does not parse
Route ==
    /\ lk.pc = "called"
    /\ ~reads_cache(req[1])
    /\ lk' = [lk EXCEPT !.pc = "returned", !.result = <<response_type(req[1], cache)>>]
    /\ UNCHANGED <<lock, seen>>
    /\ UNCHANGED svc_vars
    /\ UNCHANGED <<start_vars, fs_vars>>

\* a variant of Lookup that evicts the entry it has read
Lookup_evicting ==
    /\ lk.pc = "called"
    /\ reads_cache(req[1])
    /\ ~lock.writer
    /\ lock' = [lock EXCEPT !.readers = @ \union {"call"}]
    /\ lk' = [lk EXCEPT !.pc = "release", !.key = key_of(req[1]),
                        !.result = <<response_type(req[1], cache)>>]
    /\ seen' = {cache_get(key_of(req[1]))}
    /\ cache' = [k \in DOMAIN cache \ {key_of(req[1])} |-> cache[k]]
    /\ UNCHANGED <<req, rsp>>
    /\ UNCHANGED <<start_vars, fs_vars>>

\* env::shuffle_cache.read(), once no writer holds the lock, then cache.get
\* and the copy under the read guard
Lookup ==
    /\ lk.pc = "called"
    /\ reads_cache(req[1])
    /\ ~lock.writer
    /\ lock' = [lock EXCEPT !.readers = @ \union {"call"}]
    /\ lk' = [lk EXCEPT !.pc = "release", !.key = key_of(req[1]),
                        !.result = <<response_type(req[1], cache)>>]
    /\ seen' = {cache_get(key_of(req[1]))}
    /\ UNCHANGED svc_vars
    /\ UNCHANGED <<start_vars, fs_vars>>

\* a variant of LkRead whose guard does not keep writers out
LkRead_unguarded ==
    /\ lk.pc = "called"
    /\ reads_cache(req[1])
    /\ ~lock.writer
    /\ lock' = lock
    /\ lk' = [lk EXCEPT !.pc = "held", !.key = key_of(req[1])]
    /\ seen' = {cache_get(key_of(req[1]))}
    /\ UNCHANGED svc_vars
    /\ UNCHANGED <<start_vars, fs_vars>>

\* the steps of Lookup one by one: env::shuffle_cache.read()
LkRead ==
    /\ lk.pc = "called"
    /\ reads_cache(req[1])
    /\ ~lock.writer
    /\ lock' = [lock EXCEPT !.readers = @ \union {"call"}]
    /\ lk' = [lk EXCEPT !.pc = "held", !.key = key_of(req[1])]
    /\ seen' = {cache_get(key_of(req[1]))}
    /\ UNCHANGED svc_vars
    /\ UNCHANGED <<start_vars, fs_vars>>

\* cache.get(&(parts[0], parts[1], parts[2]))
LkGet ==
    /\ lk.pc = "held"
    /\ lk' = IF lk.key \in DOMAIN cache
             THEN [lk EXCEPT !.pc = "copy"]
             ELSE [lk EXCEPT !.pc = "release", !.result = <<Err(RequestedCacheNotFound)>>]
    /\ UNCHANGED <<lock, seen>>
    /\ UNCHANGED svc_vars
    /\ UNCHANGED <<start_vars, fs_vars>>

\* Vec::from(&cached_data[..]), byte after byte
LkCopy ==
    /\ lk.pc = "copy"
    /\ lk' = IF lk.key \in DOMAIN cache /\ Len(lk.copied) < Len(cache[lk.key])
             THEN [lk EXCEPT !.copied = Append(@, cache[lk.key][Len(@) + 1])]
             ELSE [lk EXCEPT !.pc = "release", !.result = <<Ok(CachedData(lk.copied))>>]
    /\ UNCHANGED <<lock, seen>>
    /\ UNCHANGED svc_vars
    /\ UNCHANGED <<start_vars, fs_vars>>

\* get_cached_data returns: the read guard is dropped
LkRelease ==
    /\ lk.pc = "release"
    /\ lock' = [lock EXCEPT !.readers = @ \ {"call"}]
    /\ lk' = [lk EXCEPT !.pc = "returned"]
    /\ UNCHANGED seen
    /\ UNCHANGED svc_vars
    /\ UNCHANGED <<start_vars, fs_vars>>

\* call builds the response from the owned copy, or from the error
Respond ==
    /\ lk.pc = "returned"
    /\ rsp' = <<respond(lk.result[1])>>
    /\ lk' = [lk EXCEPT !.pc = "done"]
    /\ UNCHANGED <<cache, req, lock, seen>>
    /\ UNCHANGED <<start_vars, fs_vars>>

\* the response is written to the connection; the exchange is over
Deliver ==
    /\ lk.pc = "done"
    /\ req' = <<>>
    /\ rsp' = <<>>
    /\ lk' = IdleLookup
    /\ seen' = {}
    /\ UNCHANGED <<cache, lock>>
    /\ UNCHANGED <<start_vars, fs_vars>>

\* the writer: env::shuffle_cache.write()
WrLock ==
    /\ ~lock.writer
    /\ lock.readers = {}
    /\ lock' = [lock EXCEPT !.writer = TRUE]
    /\ UNCHANGED <<lk, seen>>
    /\ UNCHANGED svc_vars
    /\ UNCHANGED <<start_vars, fs_vars>>

\* cache.insert(c, block): a new entry, or another block for the key
WrInsert(c, block) ==
    /\ lock.writer
    /\ Cardinality(DOMAIN cache \union {c}) <= MaxEntries
    /\ cache_get(c) # <<block>>
    /\ cache' = [k \in DOMAIN cache \union {c} |-> IF k = c THEN block ELSE cache[k]]
    /\ seen' = IF Looking /\ lk.key = c THEN seen \union {<<block>>} ELSE seen
    /\ UNCHANGED <<req, rsp, lock, lk>>
    /\ UNCHANGED <<start_vars, fs_vars>>

\* the owner of the cache evicts an entry under the write guard
WrRemove(c) ==
    /\ lock.writer
    /\ c \in DOMAIN cache
    /\ cache' = [k \in DOMAIN cache \ {c} |-> cache[k]]
    /\ seen' = IF Looking /\ lk.key = c THEN seen \union {<<>>} ELSE seen
    /\ UNCHANGED <<req, rsp, lock, lk>>
    /\ UNCHANGED <<start_vars, fs_vars>>

\* the write guard is dropped
WrUnlock ==
    /\ lock.writer
    /\ lock' = [lock EXCEPT !.writer = FALSE]
    /\ UNCHANGED <<lk, seen>>
    /\ UNCHANGED svc_vars
    /\ UNCHANGED <<start_vars, fs_vars>>

\* the service with the lookup as one step under the guard
SvcNext ==
    \/ \E uri \in Uris : Receive(uri)
    \/ Route
    \/ Lookup
    \/ LkRelease
    \/ Respond
    \/ Deliver
    \/ WrLock
    \/ \E c \in CacheKeys, block \in Blocks : WrInsert(c, block)
    \/ \E c \in CacheKeys : WrRemove(c)
    \/ WrUnlock

\* the lookup step by step
LookupNext ==
    \/ \E uri \in LookupUris : Receive(uri)
    \/ LkRead
    \/ LkGet
    \/ LkCopy
    \/ LkRelease
    \/ Respond
    \/ Deliver
    \/ WrLock
    \/ \E c \in LookupKeys, block \in LookupBlocks : WrInsert(c, block)
    \/ \E c \in LookupKeys : WrRemove(c)
    \/ WrUnlock

Init == SvcInit /\ StartInit /\ FsIdle /\ LkIdle

Next ==
    \/ \E arg \in {<<>>} \union {<<p>> : p \in Ports} : StartServer(arg)
    \/ RtBuildFails
    \/ \E o \in SampledOffsets : Launch(o)
    \/ BgBind
    \/ BgServeFails
    \/ \E p \in Ports : DetachedBind(p)
    \/ \E p \in Ports : DetachedServeFails(p)
    \/ SelectRecv
    \/ SelectTimeout
    \/ GetStatus

Spec == Init /\ [][Next]_vars

\* select! returns within its 100 ms, so the calling thread always moves on
FairSpec == Spec /\ WF_vars(FgStep)

\* the service of a started server, the binder at rest
ServingInit == SvcInit /\ StartIdle /\ foreign = {} /\ FsIdle /\ LkIdle

LookupSpec == ServingInit /\ [][LookupNext]_vars

\* the instances of one host at work on its filesystem, no server started
HostInit == SvcInit /\ StartIdle /\ foreign = {} /\ FsInit /\ LkIdle

FsSpec == HostInit /\ [][FsNext]_vars

\* ShuffleManager::new of instance 1: the working directory, the shuffle
\* directory, then start_server(shuffle_svc_port)
NewStartServer(arg) ==
    /\ alloc[1].pc = "ready"
    /\ calls = 0
    /\ StartServer(arg)

NewInit == SvcInit /\ StartInit /\ FsInit /\ LkIdle

NewNext ==
    \/ AllocCall(1)
    \/ \E u \in Uuids : AllocCheck(1, u)
    \/ AllocCreate(1)
    \/ MakeShuffleDir(1)
    \/ \E arg \in {<<>>} \union {<<p>> : p \in Ports} : NewStartServer(arg)
    \/ RtBuildFails
    \/ \E o \in SampledOffsets : Launch(o)
    \/ BgBind
    \/ BgServeFails
    \/ \E p \in Ports : DetachedBind(p)
    \/ \E p \in Ports : DetachedServeFails(p)
    \/ SelectRecv
    \/ SelectTimeout

NewSpec == NewInit /\ [][NewNext]_vars

SvcSpec == ServingInit /\ [][SvcNext]_vars

\* ------------------------------------------------ claims about the service
\* a request has just been answered
Answered == rsp # <<>>
\* this step is response_type coming to its result, the cache read if need be
Answering == lk.pc = "called" /\ lk'.pc # "called"

\* C1: a request for /shuffle/s/i/r whose coordinate (s,i,r) is in the cache
\* with block B when it is handled is answered 200 with body exactly B.
C1_CachedDataFound ==
    /\ [][Answering =>
             \A c \in DOMAIN cache :
                 req[1].path = shuffle_path(c) =>
                     lk'.result = <<Ok(CachedData(cache[c]))>>]_vars
    /\ []((Answered /\ lk.result[1].ok /\ lk.result[1].val[1].kind = "CachedData") =>
             rsp = <<Ok(Response(200, lk.result[1].val[1].data))>>)

C1_Witness ==
    /\ Answered
    /\ \E c \in DOMAIN cache :
           /\ c[2] # c[3]
           /\ req[1].path = shuffle_path(c)
           /\ cache[c] = <<"a", "b">>
           /\ rsp[1].val = <<Response(200, <<"a", "b">>)>>

\* C2: a request for /shuffle/s/i/r whose coordinate is not a key of the
\* cache when it is handled is answered 404 with an empty body.
C2_CachedDataNotFound ==
    /\ [][Answering =>
             \A c \in Coordinates \ DOMAIN cache :
                 req[1].path = shuffle_path(c) =>
                     lk'.result = <<Err(RequestedCacheNotFound)>>]_vars
    /\ []((Answered /\ lk.result = <<Err(RequestedCacheNotFound)>>) =>
             rsp = <<Ok(Response(404, <<>>))>>)

C2_Witness ==
    /\ Answered
    /\ DOMAIN cache # {}
    /\ \E c \in Coordinates \ DOMAIN cache :
           /\ req[1].path = shuffle_path(c)
           /\ rsp[1].val = <<Response(404, <<>>)>>

\* what the claims call an unsigned decimal integer: decimal digits, which
\* the integer parser lets a single '+' precede
IsUnsignedDecimal(seg) ==
    LET ds == IF seg # <<>> /\ seg[1] = "+" THEN Tail(seg) ELSE seg
    IN  ds # <<>> /\ \A k \in 1..Len(ds) : ds[k] \in {Digits[d] : d \in 1..10}

\* the segments a request path of the model may carry
PathSegments == IdSegments \union UNION {{t[k] : k \in 1..Len(t)} : t \in OddTails}

MatchesShuffle(path, Numerals) ==
    \E a \in Numerals, b \in Numerals, c \in Numerals :
        path = <<"/">> \o str_shuffle \o <<"/">> \o a \o <<"/">> \o b \o <<"/">> \o c

IsStatusPath(path) == path = <<"/">> \o str_status

\* C3 as stated: a request whose path is neither /status nor
\* /shuffle/{int}/{int}/{int} is answered 400 with the body
\* 'Failed to parse: ' followed by the request path.
C3_Original_BodyIsPath ==
    Answered =>
        LET path == req[1].path
        IN  (~IsStatusPath(path)
             /\ ~MatchesShuffle(path, {seg \in PathSegments : IsUnsignedDecimal(seg)}))
            => rsp[1].val = <<Response(400, str_failed_to_parse \o path)>>

\* the request target as received: scheme and authority when it is in
\* absolute form, the path, then '?' and the query when there is one
RequestTarget(uri) ==
    (IF uri.scheme = <<>> THEN <<>> ELSE uri.scheme[1] \o <<":", "/", "/">>)
    \o (IF uri.authority = <<>> THEN <<>> ELSE uri.authority[1])
    \o uri.path
    \o (IF uri.query = <<>> THEN <<>> ELSE <<"?">> \o uri.query[1])

\* a segment u64::from_str_radix(_, 10) accepts: an unsigned decimal that,
\* its sign and leading zeros set aside, is not above 18446744073709551615
IsParseableU64(seg) ==
    /\ IsUnsignedDecimal(seg)
    /\ \E k \in 1..Len(seg) :
           /\ \A j \in 1..(k - 1) : seg[j] \in {"+", "0"}
           /\ LET ds == SubSeq(seg, k, Len(seg))
              IN  \/ Len(ds) < Len(U64_MAX_DIGITS)
                  \/ /\ Len(ds) = Len(U64_MAX_DIGITS)
                     /\ \A i \in 1..Len(ds) :
                            (\A j \in 1..(i - 1) : ds[j] = U64_MAX_DIGITS[j])
                                => DigitVal(ds[i]) <= DigitVal(U64_MAX_DIGITS[i])

\* C3 as amended: such a request is answered 400 with the body
\* 'Failed to parse: ' followed by the request URI as received, query
\* string included; an integer is what u64::from_str_radix accepts.
C3_FailedToParseUri ==
    Answered =>
        LET path == req[1].path
        IN  (~IsStatusPath(path)
             /\ ~MatchesShuffle(path, {seg \in PathSegments : IsParseableU64(seg)}))
            => /\ rsp[1].ok
               /\ rsp[1].val[1].status = 400
               /\ rsp[1].val[1].body = str_failed_to_parse \o RequestTarget(req[1])

C3_Witness ==
    /\ Answered
    /\ req[1].query # <<>>
    /\ Len(split(req[1].path, "/")) = 5
    /\ split(req[1].path, "/")[2] = str_shuffle
    /\ ~IsUnsignedDecimal(split(req[1].path, "/")[4])
    /\ rsp[1].val[1].status = 400
    /\ rsp[1].val[1].body # str_failed_to_parse \o req[1].path

\* C10: ShuffleService::call resolves to Ok(response) for every request,
\* with exactly one response, whatever routing, parsing and lookup did.
C10_CallNeverErrs ==
    Answered => /\ Len(rsp) = 1
                /\ rsp[1].ok
                /\ Len(rsp[1].val) = 1
                /\ rsp[1].err = <<>>
                /\ rsp[1].val[1].status \in {200, 400, 404, 500}

C10_Witness ==
    /\ Answered
    /\ rsp[1].ok
    /\ rsp[1].val[1].status = 400
    /\ req[1].path = <<"/">> \o str_not_valid
    /\ req[1].query = <<>>

\* ------------------------------------------ claims about the endpoint binder
\* start_server has returned and has not been called again
Returned == fg.pc = "idle" /\ ret # <<>>
FixedMode == fg.arg # <<>>
DynamicMode == fg.arg = <<>>

\* C4: start_server(Some(p)) with p bound by another listener makes one bind
\* attempt (none when no runtime could be built) and returns
\* Err(FailedToStart), never Ok, under every interleaving.
C4_Original_FixedPortInUse ==
    (Returned /\ FixedMode /\ fg.arg[1] \in foreign) =>
        /\ ret[1] = Err(FailedToStart)
        /\ attempts <= 1

\* C5: start_server(Some(p)) with p unbound at the call, once its runtime is
\* built, returns Ok("http://{local_ip}:{p}"), and GET /status sent after the
\* return is answered by the service with 200 and an empty body.
C5_Original_FixedPortFree ==
    (Returned /\ FixedMode /\ free_at_call /\ attempts = 1) =>
        /\ ret[1] = Ok(format_server_uri(fg.arg[1]))
        /\ probe # <<>> =>
               /\ probe[1].answered_by = "service"
               /\ probe[1].rsp = <<Response(200, <<>>)>>

\* C6: when a failure signal arrived on the channel before the timeout, be
\* it an Err value sent or the sender dropped, launch_async_runtime returns
\* Err(FailedToStart).
C6_Original_FailureSignalFails ==
    (launch_ret # <<>> /\ launch_ret[1].signal \in {"sent", "panicked"}) =>
        launch_ret[1].result = Err(FailedToStart)

\* C7: in dynamic mode no bind attempt is made on a port an earlier attempt
\* of this process has already confirmed bound.
C7_Original_NoPortReuse ==
    (fg.pc = "select" /\ DynamicMode) => fg.bind_port \notin confirmed

\* C8 (state part): a dynamic start_server makes at most 10 attempts; it
\* returns Ok exactly after the first attempt whose handshake succeeded, with
\* that attempt's port; after 10 failed attempts it returns
\* FreePortNotFound(port of the 10th); any other return is the runtime
\* failing to build, no attempt having succeeded.
C8_AtMostTenAttempts ==
    DynamicMode =>
        /\ attempts <= 10
        /\ failures <= attempts
        /\ Returned =>
              IF ret[1].ok
              THEN /\ launch_ret # <<>>
                   /\ launch_ret[1].result.ok
                   /\ failures = attempts - 1
                   /\ ret[1] = Ok(format_server_uri(fg.bind_port))
              ELSE IF failures = 10
              THEN /\ attempts = 10
                   /\ ret[1] = Err(FreePortNotFound(fg.bind_port))
              ELSE /\ failures = attempts
                   /\ ret[1] = Err(FailedToStart)

\* C8: start_server(None) always terminates, after at most 10 bind attempts,
\* at the first successful handshake or with FreePortNotFound(last port).
C8_DynamicTerminates ==
    /\ []C8_AtMostTenAttempts
    /\ (fg.pc # "idle" /\ DynamicMode) ~> Returned

C8_Witness ==
    /\ Returned
    /\ DynamicMode
    /\ attempts = 10
    /\ failures = 10
    /\ ret[1] = Err(FreePortNotFound(fg.bind_port))
    /\ fg.bind_port \in foreign

\* C9: a server URI returned with Ok stays the same and stays valid: in every
\* later state a listener of this process serves on its port.
C9_Original_UriStableAndValid ==
    /\ [](\A i \in DOMAIN server_uris :
             \E p \in listening : server_uris[i] = format_server_uri(p))
    /\ [][\A i \in DOMAIN server_uris : server_uris'[i] = server_uris[i]]_vars

\* ------------------------------------------------- further claims: service
\* C19: every response to a request has status 200, 400 or 404: request
\* handling produces no error kind but FailedToParseUri and
\* RequestedCacheNotFound, so the 500 arm of the mapping is never taken.
C19_StatusIn200_400_404 ==
    Answered =>
        /\ rsp[1].ok
        /\ rsp[1].val[1].status \in {200, 400, 404}
        /\ LET r == response_type(req[1], cache)
           IN  ~r.ok => r.err[1].kind \in {"FailedToParseUri", "RequestedCacheNotFound"}

C19_Witness ==
    /\ Answered
    /\ Len(split(req[1].path, "/")) = 3
    /\ split(req[1].path, "/")[2] = str_not_valid
    /\ rsp[1].val[1].status = 400

\* ------------------------------------------------- further claims: binder
\* C20: a URI returned by start_server(None) carries the port of the attempt
\* whose handshake succeeded, a port of [49152, 65535): never the placeholder
\* 0, never 65535, and no sampled port has wrapped around u16.
C20_DynamicPortInRange ==
    DynamicMode =>
        /\ fg.pc = "select" =>
               /\ fg.bind_port >= 49152
               /\ fg.bind_port < 65535
        /\ (Returned /\ ret[1].ok) =>
               /\ launch_ret # <<>>
               /\ launch_ret[1].result.ok
               /\ fg.port = fg.bind_port
               /\ fg.port >= 49152
               /\ fg.port < 65535
               /\ ret[1].val[1] = str_http \o <<":", "/", "/">> \o local_ip \o <<":">>
                                      \o to_string(fg.port)

C20_Witness ==
    /\ Returned
    /\ DynamicMode
    /\ ret[1].ok
    /\ failures > 0
    /\ fg.port = 65534
    /\ ret[1].val[1] = str_http \o <<":", "/", "/">> \o local_ip
                           \o <<":", "6", "5", "5", "3", "4">>

\* ---------------------------------------------------------------- C11
is_prefix(p, q) == Len(p) <= Len(q) /\ SubSeq(q, 1, Len(p)) = p

\* C11: a working directory get_local_work_dir returned is R/spark-local-t
\* for the configured root R and a generated token t, R a proper prefix of it
C11_Original_WorkDirUnderRoot ==
    \A i \in Instances :
        (alloc[i].ret # <<>> /\ alloc[i].ret[1].ok) =>
            /\ \E u \in Uuids :
                   alloc[i].ret[1].val[1]
                       = local_dir_root \o str_spark_local \o uuid_to_string(u)
            /\ is_prefix(local_dir_root \o <<"/">>, alloc[i].ret[1].val[1])

\* ---------------------------------------------------------------- C12
\* ShuffleDirectory/{shuffle_id}/{input_id}/{output_id}, as the specification
\* writes the path
path_beneath(shuffle_dir, c) ==
    shuffle_dir \o <<"/">> \o to_string(c[1]) \o <<"/">> \o to_string(c[2])
        \o <<"/">> \o to_string(c[3])

\* C12: get_output_file returns ShuffleDirectory/{s}/{i}/{o}, and two
\* managers with different shuffle directories never resolve one coordinate
\* to one path
C12_Original_OutputBeneathShuffleDir ==
    /\ \A i \in Instances :
           out[i] # <<>> =>
               out[i][1].path = path_beneath(alloc[i].shuffle_dir, out[i][1].coordinate)
    /\ \A i, j \in Instances :
           (/\ out[i] # <<>> /\ out[j] # <<>>
            /\ alloc[i].shuffle_dir # alloc[j].shuffle_dir
            /\ out[i][1].coordinate = out[j][1].coordinate)
               => out[i][1].path # out[j][1].path

\* ---------------------------------------------------------------- C13
\* C13: when get_output_file has returned, also for the second time and after
\* a write, the containing directory exists and an empty regular file is at
\* the returned path
C13_Original_FileExistsEmpty ==
    [][\A i \in Instances, c \in OutputCoordinates :
           GetOutputFile(i, c) =>
               /\ parent_of(out'[i][1].path) \in dirs'
               /\ out'[i][1].path \in DOMAIN files'
               /\ files'[out'[i][1].path] = <<>>]_vars

\* ---------------------------------------------------------------- C15
\* C15: get_local_work_dir makes at most 10 attempts; it returns Ok only with
\* a candidate that its check found missing and that it has created, so that
\* the directory exists at the return, and ends with
\* Err(CouldNotCreateShuffleDir) exactly when the 10th candidate existed,
\* having created no directory
C15_Original_CreatedOrFailed ==
    [][\A i \in Instances :
           /\ alloc'[i].tries <= MAX_RETRIES
           /\ (alloc[i].pc = "check" /\ alloc'[i].pc = "create") =>
                  /\ alloc'[i].tries = alloc[i].tries /\ alloc[i].tries < MAX_RETRIES
                  /\ ~path_exists(alloc'[i].local_dir, dirs, files)
                  /\ \E u \in Uuids : alloc'[i].local_dir = work_dir_candidate(u)
           /\ (alloc[i].pc # "returned" /\ alloc'[i].pc = "returned") =>
                  /\ alloc[i].pc = "create"
                  /\ alloc'[i].ret = <<Ok(alloc[i].local_dir)>>
                  /\ alloc[i].local_dir \in dirs'
           /\ (alloc[i].pc # "failed" /\ alloc'[i].pc = "failed") =>
                  /\ alloc[i].pc = "check"
                  /\ alloc'[i].tries = MAX_RETRIES
                  /\ alloc'[i].ret = <<Err(CouldNotCreateShuffleDir)>>
                  /\ dirs' = dirs /\ files' = files
           /\ (alloc[i].pc = "check" /\ alloc'[i].pc = "check" /\ alloc'[i] # alloc[i]) =>
                  /\ alloc'[i].tries = alloc[i].tries + 1
                  /\ alloc'[i].tries < MAX_RETRIES
                  /\ \E u \in Uuids : path_exists(work_dir_candidate(u), dirs, files)
                  /\ dirs' = dirs /\ files' = files]_vars

\* ---------------------------------------------------------------- C16
\* C16: the directory an allocator returns did not exist when that allocator
\* created it, and two instances never return the same working directory
C16_Original_NoSharedWorkDir ==
    /\ \A i \in Instances : alloc[i].ret # <<>> /\ alloc[i].ret[1].ok => ~alloc[i].existed
    /\ \A i, j \in Instances :
           (i # j /\ alloc[i].ret # <<>> /\ alloc[j].ret # <<>>
                  /\ alloc[i].ret[1].ok /\ alloc[j].ret[1].ok)
               => alloc[i].ret[1].val # alloc[j].ret[1].val

\* ---------------------------------------------------------------- C14
\* ShuffleManager::new of instance 1 has returned Ok(manager)
NewReturnedOk == alloc[1].pc = "ready" /\ Returned /\ ret[1].ok

\* C14: ShuffleManager::new never returns Ok after one of its steps failed:
\* the working directory and the shuffle directory were created, and the
\* launch that ended start_server was not one whose thread signalled a
\* failure of runtime, bind or serve
C14_Original_NoSwallowedFailure ==
    NewReturnedOk =>
        /\ alloc[1].create_ok
        /\ alloc[1].shuffle_ok
        /\ launch_ret[1].signal \notin {"sent", "panicked"}

\* ---------------------------------------------------------------- C17
\* C17: the body of a 200 answer is, whole, one value the cache held for the
\* key while the lookup ran, whatever a writer inserts, overwrites or removes
\* around it, and no later change of the cache alters the body
C17_SnapshotBody ==
    /\ []((lk.pc \in {"returned", "done"} /\ lk.result[1].ok) =>
             /\ <<lk.result[1].val[1].data>> \in seen
             /\ lk.pc = "done" =>
                    rsp = <<Ok(Response(STATUS_OK, lk.result[1].val[1].data))>>)
    /\ [][(lk.pc = "done" /\ lk'.pc = "done") => rsp' = rsp]_vars

\* a 200 answer is ready whose body the cache no longer holds for the key
C17_Witness ==
    /\ lk.pc = "done"
    /\ rsp[1].val[1].status = 200
    /\ rsp[1].val[1].body \in LookupBlocks
    /\ cache_get(lk.key) # <<rsp[1].val[1].body>>
    /\ cache_get(lk.key) # <<>>

\* ---------------------------------------------------------------- C18
\* C18: handling a request, whatever it asks for, leaves the keys and the
\* values of the shuffle cache as they were and creates or modifies no file
\* and no directory
C18_RequestChangesNothing ==
    [][(lk' # lk) =>
          /\ DOMAIN cache' = DOMAIN cache
          /\ \A c \in DOMAIN cache : cache'[c] = cache[c]
          /\ dirs' = dirs
          /\ files' = files]_vars

\* a hit has been served and its entry is in the cache as before
C18_Witness ==
    /\ Answered
    /\ \E c \in DOMAIN cache :
           /\ req[1].path = shuffle_path(c)
           /\ cache[c] # <<>>
           /\ rsp[1].val[1] = Response(STATUS_OK, cache[c])

====
